---- MODULE Spec2Model ----
(***************************************************************************)
(* Model of the agent request/response bridge of adk-sample:               *)
(*   - LangChainA2AExecutor.execute / cancel                               *)
(*       (src/src/langchain_agent/agent_executor.py)                       *)
(*   - LocalLLMAgentExecutor.execute / cancel                              *)
(*       (src/src/local_llm/agent_executor.py)                             *)
(*   - get_agent / invoke_agent (src/src/langchain_agent/agent.py)         *)
(*   - calculate (src/src/local_llm/tools.py)                              *)
(*   - ask_translator_agent (src/src/common/a2a_tools.py)                  *)
(*                                                                         *)
(* Python strings are sequences of one-character strings.  Every `await`   *)
(* of the source is a point where another coroutine of the same event loop *)
(* may run, so each action covers the code between two awaits.             *)
(***************************************************************************)
EXTENDS Integers, Sequences, FiniteSets, TLC

\* ------------------------------------------------------------------ bounds
\* number of execute calls in flight on the servers
NumCalls == 2
\* number of cancel calls
MaxCancels == 1
\* events streamed by one runner.run_async call (aggregation specification)
MaxEvents == 2
\* parts of one streamed event (aggregation specification)
MaxParts == 2
\* messages the LangChain agent adds after the user's one (invoke specification)
MaxMsgs == 3
\* tokens of an expression given to calculate
MaxTokens == 3
\* parts of a message answered by the remote agent
MaxRespParts == 2

\* ------------------------------------------------------------ value domains
Calls == 1..NumCalls
Executors == {"langchain", "local_llm"}
TaskIds == {"t1", "t2"}
\* context_id is optional: "None" is Python's None
None == "None"
ContextIds == {None, "c1"}

\* a part of a message or of streamed content: hasText is
\* hasattr(part, "text") and part.text is not None
TextPart(t) == [hasText |-> TRUE, text |-> t]
NonTextPart == [hasText |-> FALSE, text |-> <<>>]

\* context.message: absent, without parts, or with parts
NoMessage == [present |-> FALSE, parts |-> <<>>]
Message(ps) == [present |-> TRUE, parts |-> ps]

\* RequestContext as the executors read it
RequestContext(t, x, m) == [task_id |-> t, context_id |-> x, message |-> m]
NoRequest == RequestContext("", None, NoMessage)

\* the requests sent to execute: two with a text part first (same or
\* different task and context), one whose first part is a file or data
\* part, one without parts, one without message
RequestContexts ==
    { RequestContext("t1", "c1", Message(<<TextPart(<<"a">>)>>)),
      RequestContext("t2", None, Message(<<TextPart(<<"a">>), NonTextPart>>)),
      RequestContext("t1", "c1", Message(<<NonTextPart>>)),
      RequestContext("t2", "c1", Message(<<>>)),
      RequestContext("t1", None, NoMessage) }

\* the requests sent to cancel: the message is not read
CancelContexts ==
    { RequestContext("t1", "c1", NoMessage),
      RequestContext("t2", None, NoMessage) }

\* ------------------------------------------------------------------ events
\* TaskStatusUpdateEvent(task_id, context_id, status=working, final=False)
WorkingEvent(ctx) ==
    [kind |-> "TaskStatusUpdateEvent", task_id |-> ctx.task_id,
     context_id |-> ctx.context_id, state |-> "working", final |-> FALSE,
     hasMessage |-> FALSE, text |-> <<>>]

\* variant: task_id and context_id given in the wrong order
CompletedTaskSwapped(ctx, text) ==
    [kind |-> "Task", task_id |-> ctx.context_id,
     context_id |-> ctx.task_id, state |-> "completed", final |-> FALSE,
     hasMessage |-> TRUE, text |-> text]

\* Task(id, context_id, status=TaskStatus(state=completed, message=text))
CompletedTask(ctx, text) ==
    [kind |-> "Task", task_id |-> ctx.task_id,
     context_id |-> ctx.context_id, state |-> "completed", final |-> FALSE,
     hasMessage |-> TRUE, text |-> text]

\* Task(id, context_id, status=TaskStatus(state=canceled))
CanceledTask(ctx) ==
    [kind |-> "Task", task_id |-> ctx.task_id,
     context_id |-> ctx.context_id, state |-> "canceled", final |-> FALSE,
     hasMessage |-> FALSE, text |-> <<>>]

IsTerminal(ev) == ev.kind = "Task" /\ ev.state \in {"completed", "canceled"}

\* the fixed fallback "応答を生成できませんでした。"
FallbackText == <<"NO_RESPONSE">>
\* f"エラーが発生しました: {e}"
ErrorText(e) == <<"ERROR:">> \o e

\* --------------------------------------------------- the underlying agents
\* one event yielded by runner.run_async: event.content is None/absent, or
\* a Content whose parts are a list
NoContentEvent == [hasContent |-> FALSE, parts |-> <<>>]
ContentEvent(ps) == [hasContent |-> TRUE, parts |-> ps]

\* what one runner.run_async call does: yields `events`, then either ends
\* or raises (exc is str(e))
RunnerOutcome(evs, r) ==
    [events |-> evs, messages |-> <<>>, raises |-> r, exc |-> <<"x">>]

\* the outcomes used when several requests are interleaved
RunnerOutcomesSmall ==
    { RunnerOutcome(<<ContentEvent(<<NonTextPart, TextPart(<<"b">>)>>)>>, FALSE),
      RunnerOutcome(<<>>, TRUE) }

\* sequences over S of length at most n
RECURSIVE SeqsUpTo(_, _)
SeqsUpTo(S, n) ==
    IF n = 0 THEN {<<>>}
    ELSE LET shorter == SeqsUpTo(S, n - 1)
         IN shorter \cup {Append(s, x) : s \in shorter, x \in S}

\* a part without text or with one of two texts (a part whose text is ""
\* adds nothing to the concatenation whether the loop skips it or not)
StreamParts == {NonTextPart, TextPart(<<"a">>), TextPart(<<"b">>)}
StreamEvents ==
    {NoContentEvent} \cup {ContentEvent(ps) : ps \in SeqsUpTo(StreamParts, MaxParts)}
\* the outcomes used when one request is followed through its stream
RunnerOutcomes ==
    {RunnerOutcome(evs, FALSE) : evs \in SeqsUpTo(StreamEvents, MaxEvents)}
    \cup {RunnerOutcome(<<>>, TRUE)}

\* a message of the LangChain agent's result["messages"]
Msg(t, c) == [type |-> t, content |-> c]
AgentContents == {<<>>, <<"b">>, <<"c">>}
AgentMsgs == {Msg(t, c) : t \in {"ai", "tool"}, c \in AgentContents}

\* what one agent.invoke call does: returns {"messages": [user message] +
\* messages} or raises (exc is str(e))
AgentOutcome(ms, r) ==
    [events |-> <<>>, messages |-> ms, raises |-> r, exc |-> <<"x">>]
\* the outcomes used when one request is followed through invoke_agent
AgentOutcomes ==
    {AgentOutcome(ms, FALSE) : ms \in SeqsUpTo(AgentMsgs, MaxMsgs)}
    \cup {AgentOutcome(<<>>, TRUE)}
\* the outcomes used when several requests are interleaved
AgentOutcomesSmall ==
    { AgentOutcome(<<Msg("ai", <<"b">>)>>, FALSE),
      AgentOutcome(<<>>, TRUE) }

\* ----------------------------------------------------------- pure functions
\* agent_executor.py (local_llm) lines 90-92: the inner loop over
\* event.content.parts, as the text it appends to response_text
RECURSIVE PartsText(_)
PartsText(ps) ==
    IF ps = <<>> THEN <<>>
    ELSE (IF Head(ps).hasText /\ Head(ps).text # <<>> THEN Head(ps).text ELSE <<>>)
         \o PartsText(Tail(ps))

\* variant: the condition on part.text dropped and the parts overwritten
\* (response_text = part.text instead of +=)
EventTextOverwrite(ev) ==
    IF ev.hasContent /\ ev.parts # <<>>
    THEN ev.parts[Len(ev.parts)].text
    ELSE <<>>

\* agent_executor.py (local_llm) lines 89-92: what one streamed event adds
EventText(ev) ==
    IF ev.hasContent THEN PartsText(ev.parts) ELSE <<>>

\* agent.py lines 135-139: for msg in reversed(messages), from index i down:
\* the first message with non-empty content is returned, whatever its type
RECURSIVE ReversedScan(_, _)
ReversedScan(messages, i) ==
    IF i = 0 THEN FallbackText
    ELSE IF messages[i].content # <<>> THEN messages[i].content
    ELSE ReversedScan(messages, i - 1)

\* agent.py lines 134-139: the return value of invoke_agent for
\* result["messages"]
InvokeAgentReturn(messages) == ReversedScan(messages, Len(messages))

\* agent.py line 131: the input of agent.invoke, echoed as the first message
\* of the result
UserMsg(user_message) == Msg("human", user_message)

\* -------------------------------------------------------------- the state
VARIABLES
    \* execute calls: position, executor, RequestContext
    pc, executor, req,
    \* the event queue of each (executor, task_id)
    queue,
    \* per execute call: the events it enqueued, and how many it had
    \* enqueued when it invoked the underlying agent (-1: not invoked)
    emitted, invokedAt,
    \* per execute call: the locals user_message, response_text, session
    user_message, response_text, session,
    \* per execute call: what its runner.run_async / agent.invoke call did
    \* (kept after the call has ended), and how many streamed events the call
    \* has consumed
    outcome, pos,
    \* LocalLLMAgentExecutor.session_service, langchain_agent.agent._agent
    sessions, agent,
    \* per execute call: the _agent instance get_agent gave it
    agentSeen,
    \* cancel calls made, and the RequestContext of the last one
    cancels, cancel_executor, cancel_ctx

execVars ==
    <<pc, executor, req, queue, emitted, invokedAt, user_message,
      response_text, session, outcome, pos, sessions, agent, agentSeen,
      cancels, cancel_executor, cancel_ctx>>

APP_NAME == "local-llm-agent"
\* a session of the store; creator is the execute call that created it
NoSession == [app_name |-> "", user_id |-> "", id |-> 0, creator |-> 0]
\* the module global _agent; creator is the execute call that created it
NoAgent == [created |-> FALSE, creator |-> 0]
NoOutcome == [events |-> <<>>, messages |-> <<>>, raises |-> FALSE, exc |-> <<>>]

\* the execute calls that have begun and not ended
Active == {c \in Calls : pc[c] \notin {"idle", "returned", "raised", "done"}}

ExecInit ==
    /\ pc = [c \in Calls |-> "idle"]
    /\ executor = [c \in Calls |-> ""]
    /\ req = [c \in Calls |-> NoRequest]
    /\ queue = [k \in Executors \X TaskIds |-> <<>>]
    /\ emitted = [c \in Calls |-> <<>>]
    /\ invokedAt = [c \in Calls |-> -1]
    /\ user_message = [c \in Calls |-> <<>>]
    /\ response_text = [c \in Calls |-> <<>>]
    /\ session = [c \in Calls |-> NoSession]
    /\ outcome = [c \in Calls |-> NoOutcome]
    /\ pos = [c \in Calls |-> 0]
    /\ sessions = {}
    /\ agent = NoAgent
    /\ agentSeen = [c \in Calls |-> NoAgent]
    /\ cancels = 0
    /\ cancel_executor = ""
    /\ cancel_ctx = NoRequest

\* the locals of execute call c cease to exist when it returns or raises
DropLocals(c) ==
    /\ user_message' = [user_message EXCEPT ![c] = <<>>]
    /\ response_text' = [response_text EXCEPT ![c] = <<>>]
    /\ session' = [session EXCEPT ![c] = NoSession]
    /\ pos' = [pos EXCEPT ![c] = 0]
    /\ agentSeen' = [agentSeen EXCEPT ![c] = NoAgent]

\* event_queue.enqueue_event(ev) / event_queue.put(ev) by execute call c
Enqueue(c, ex, ctx, ev) ==
    /\ queue' = [queue EXCEPT ![<<ex, ctx.task_id>>] = Append(@, ev)]
    /\ emitted' = [emitted EXCEPT ![c] = Append(@, ev)]

\* variant: the working event enqueued before the guard on the message
ExecuteBeginWorkingFirst(c, ex, ctx, next) ==
    /\ pc[c] = "idle"
    /\ \A d \in Calls : d < c => pc[d] # "idle"
    /\ executor' = [executor EXCEPT ![c] = ex]
    /\ req' = [req EXCEPT ![c] = ctx]
    /\ Enqueue(c, ex, ctx, WorkingEvent(ctx))
    /\ IF ~ctx.message.present \/ ctx.message.parts = <<>>
       THEN /\ pc' = [pc EXCEPT ![c] = "returned"]
            /\ UNCHANGED user_message
       ELSE IF ~ctx.message.parts[1].hasText
       THEN /\ pc' = [pc EXCEPT ![c] = "raised"]
            /\ UNCHANGED user_message
       ELSE /\ user_message' = [user_message EXCEPT ![c] = ctx.message.parts[1].text]
            /\ pc' = [pc EXCEPT ![c] = next]
    /\ UNCHANGED <<invokedAt, response_text, session, outcome, pos, sessions,
                   agent, agentSeen, cancels, cancel_executor, cancel_ctx>>

\* lines 33-46 / 49-62 of both execute methods: the guard on the message,
\* parts[0].root.text, the working event
ExecuteBegin(c, ex, ctx, next) ==
    /\ pc[c] = "idle"
    \* the calls are numbered in the order in which they begin
    /\ \A d \in Calls : d < c => pc[d] # "idle"
    /\ executor' = [executor EXCEPT ![c] = ex]
    /\ req' = [req EXCEPT ![c] = ctx]
    /\ IF ~ctx.message.present \/ ctx.message.parts = <<>>
       THEN \* return
            /\ pc' = [pc EXCEPT ![c] = "returned"]
            /\ UNCHANGED <<queue, emitted, user_message>>
       ELSE IF ~ctx.message.parts[1].hasText
       THEN \* parts[0].root has no attribute text: AttributeError
            /\ pc' = [pc EXCEPT ![c] = "raised"]
            /\ UNCHANGED <<queue, emitted, user_message>>
       ELSE /\ user_message' = [user_message EXCEPT ![c] = ctx.message.parts[1].text]
            /\ Enqueue(c, ex, ctx, WorkingEvent(ctx))
            /\ pc' = [pc EXCEPT ![c] = next]
    /\ UNCHANGED <<invokedAt, response_text, session, outcome, pos, sessions,
                   agent, agentSeen, cancels, cancel_executor, cancel_ctx>>

\* __main__.py lines 24-28 (both packages): the executor is called by the
\* DefaultRequestHandler, which forwards a cancel request only for a task
\* that exists and has no terminal state yet
Cancelable(ex, ctx) ==
    LET q == queue[<<ex, ctx.task_id>>]
    IN q # <<>> /\ ~IsTerminal(q[Len(q)])

\* ------------------------------------------------- LangChainA2AExecutor
\* execute, lines 33-46
LangChainExecuteBegin(c, ctx) == ExecuteBegin(c, "langchain", ctx, "invoke")

\* agent.py lines 115-118: get_agent() creates the singleton on first use
GetAgent(c) ==
    IF agent.created THEN agent
    ELSE [created |-> TRUE, creator |-> c]

\* execute, lines 50-52: the value of response_text when agent.invoke has
\* outcome o
ResponseText(user, o) ==
    IF o.raises THEN ErrorText(o.exc)
    ELSE InvokeAgentReturn(<<UserMsg(user)>> \o o.messages)

\* execute, lines 48-52, with invoke_agent (agent.py lines 130-139) inlined:
\* nothing is awaited inside invoke_agent, so it is one step; the outcome of
\* agent.invoke is one of `outcomes`
LangChainInvoke(c, outcomes) ==
    /\ pc[c] = "invoke"
    /\ agent' = GetAgent(c)
    /\ agentSeen' = [agentSeen EXCEPT ![c] = GetAgent(c)]
    /\ invokedAt' = [invokedAt EXCEPT ![c] = Len(emitted[c])]
    /\ \E o \in outcomes :
         /\ outcome' = [outcome EXCEPT ![c] = o]
         /\ response_text' =
              [response_text EXCEPT ![c] = ResponseText(user_message[c], o)]
    /\ pc' = [pc EXCEPT ![c] = "complete"]
    /\ UNCHANGED <<executor, req, queue, emitted, user_message, session, pos,
                   sessions, cancels, cancel_executor, cancel_ctx>>

\* execute, lines 55-68
LangChainComplete(c) ==
    /\ pc[c] = "complete"
    /\ executor[c] = "langchain"
    /\ Enqueue(c, "langchain", req[c], CompletedTask(req[c], response_text[c]))
    /\ pc' = [pc EXCEPT ![c] = "done"]
    /\ DropLocals(c)
    /\ UNCHANGED <<executor, req, invokedAt, outcome, sessions, agent, cancels,
                   cancel_executor, cancel_ctx>>

\* cancel, lines 81-87
LangChainCancel(ctx) ==
    /\ cancels < MaxCancels
    /\ queue' = [queue EXCEPT ![<<"langchain", ctx.task_id>>] =
                   Append(@, CanceledTask(ctx))]
    /\ cancels' = cancels + 1
    /\ cancel_executor' = "langchain"
    /\ cancel_ctx' = ctx
    /\ UNCHANGED <<pc, executor, req, emitted, invokedAt, user_message,
                   response_text, session, outcome, pos, sessions, agent,
                   agentSeen>>

\* ------------------------------------------------- LocalLLMAgentExecutor
\* execute, lines 49-62
LocalLLMExecuteBegin(c, ctx) == ExecuteBegin(c, "local_llm", ctx, "get_session")

\* execute, line 65: context.context_id or "default-user"
UserId(ctx) == IF ctx.context_id = None THEN "default-user" ELSE ctx.context_id

\* the sessions get_session(app_name, user_id) can return
SessionsOf(user_id) ==
    {s \in sessions : s.app_name = APP_NAME /\ s.user_id = user_id}

\* execute, lines 77-88, the code that follows the session without an
\* await: response_text = "" and the call of runner.run_async, whose
\* outcome is o (one of `outcomes` in the two actions below)
RunAsync(c, o) ==
    /\ response_text' = [response_text EXCEPT ![c] = <<>>]
    /\ invokedAt' = [invokedAt EXCEPT ![c] = Len(emitted[c])]
    /\ outcome' = [outcome EXCEPT ![c] = o]
    /\ pos' = [pos EXCEPT ![c] = 0]
    /\ pc' = [pc EXCEPT ![c] = "stream"]

\* execute, lines 65-70: await session_service.get_session(...); when a
\* session is found, lines 77-88 follow
LocalLLMGetSession(c, outcomes) ==
    /\ pc[c] = "get_session"
    /\ IF SessionsOf(UserId(req[c])) = {}
       THEN /\ session' = [session EXCEPT ![c] = NoSession]
            /\ pc' = [pc EXCEPT ![c] = "create_session"]
            /\ UNCHANGED <<response_text, invokedAt, outcome, pos>>
       ELSE /\ \E s \in SessionsOf(UserId(req[c])) :
                 session' = [session EXCEPT ![c] = s]
            /\ \E o \in outcomes : RunAsync(c, o)
    /\ UNCHANGED <<executor, req, queue, emitted, user_message, sessions,
                   agent, agentSeen, cancels, cancel_executor, cancel_ctx>>

\* the session create_session(app_name, user_id) makes: a new id each time
NewSession(c) ==
    [app_name |-> APP_NAME, user_id |-> UserId(req[c]),
     id |-> Cardinality(sessions) + 1, creator |-> c]

\* execute, lines 70-88: await session_service.create_session(...), then
\* lines 77-88
LocalLLMCreateSession(c, outcomes) ==
    /\ pc[c] = "create_session"
    /\ sessions' = sessions \cup {NewSession(c)}
    /\ session' = [session EXCEPT ![c] = NewSession(c)]
    /\ \E o \in outcomes : RunAsync(c, o)
    /\ UNCHANGED <<executor, req, queue, emitted, user_message, agent,
                   agentSeen, cancels, cancel_executor, cancel_ctx>>

\* variant: response_text kept on the executor instance, so that an event
\* of one request is appended to the text of every request being streamed
LocalLLMStreamEventShared(c) ==
    /\ pc[c] = "stream"
    /\ pos[c] < Len(outcome[c].events)
    /\ response_text' =
         [d \in Calls |->
            IF pc[d] = "stream"
            THEN response_text[d] \o EventText(outcome[c].events[pos[c] + 1])
            ELSE response_text[d]]
    /\ pos' = [pos EXCEPT ![c] = @ + 1]
    /\ UNCHANGED <<pc, executor, req, queue, emitted, invokedAt, user_message,
                   session, outcome, sessions, agent, agentSeen, cancels,
                   cancel_executor, cancel_ctx>>

\* execute, lines 83-92: one iteration of the async for
LocalLLMStreamEvent(c) ==
    /\ pc[c] = "stream"
    /\ pos[c] < Len(outcome[c].events)
    /\ response_text' =
         [response_text EXCEPT ![c] = @ \o EventText(outcome[c].events[pos[c] + 1])]
    /\ pos' = [pos EXCEPT ![c] = @ + 1]
    /\ UNCHANGED <<pc, executor, req, queue, emitted, invokedAt, user_message,
                   session, outcome, sessions, agent, agentSeen, cancels,
                   cancel_executor, cancel_ctx>>

\* execute, line 83: the generator ends, or raises: nothing catches it
LocalLLMStreamEnd(c) ==
    /\ pc[c] = "stream"
    /\ pos[c] = Len(outcome[c].events)
    /\ IF outcome[c].raises
       THEN /\ pc' = [pc EXCEPT ![c] = "raised"]
            /\ DropLocals(c)
       ELSE /\ pc' = [pc EXCEPT ![c] = "complete"]
            /\ UNCHANGED <<user_message, response_text, session, pos, agentSeen>>
    /\ UNCHANGED <<executor, req, queue, emitted, invokedAt, outcome, sessions,
                   agent, cancels, cancel_executor, cancel_ctx>>

\* execute, line 102: response_text or the fallback
CompletedText(text) == IF text = <<>> THEN FallbackText ELSE text

\* execute, lines 95-108
LocalLLMComplete(c) ==
    /\ pc[c] = "complete"
    /\ executor[c] = "local_llm"
    /\ Enqueue(c, "local_llm", req[c],
               CompletedTask(req[c], CompletedText(response_text[c])))
    /\ pc' = [pc EXCEPT ![c] = "done"]
    /\ DropLocals(c)
    /\ UNCHANGED <<executor, req, invokedAt, outcome, sessions, agent, cancels,
                   cancel_executor, cancel_ctx>>

\* variant: cancel also stops the execute calls in flight on the task
LocalLLMCancelStops(ctx) ==
    /\ cancels < MaxCancels
    /\ queue' = [queue EXCEPT ![<<"local_llm", ctx.task_id>>] =
                   Append(@, CanceledTask(ctx))]
    /\ pc' = [c \in Calls |->
                IF c \in Active /\ executor[c] = "local_llm"
                   /\ req[c].task_id = ctx.task_id
                THEN "raised" ELSE pc[c]]
    /\ cancels' = cancels + 1
    /\ cancel_executor' = "local_llm"
    /\ cancel_ctx' = ctx
    /\ UNCHANGED <<executor, req, emitted, invokedAt, user_message,
                   response_text, session, outcome, pos, sessions, agent,
                   agentSeen>>

\* cancel, lines 121-127
LocalLLMCancel(ctx) ==
    /\ cancels < MaxCancels
    /\ queue' = [queue EXCEPT ![<<"local_llm", ctx.task_id>>] =
                   Append(@, CanceledTask(ctx))]
    /\ cancels' = cancels + 1
    /\ cancel_executor' = "local_llm"
    /\ cancel_ctx' = ctx
    /\ UNCHANGED <<pc, executor, req, emitted, invokedAt, user_message,
                   response_text, session, outcome, pos, sessions, agent,
                   agentSeen>>

\* ------------------------------------------------------------- calculate
\* An expression is a sequence of tokens (the string is the tokens joined by
\* blanks).  Tokens: small integer literals, the four operators,
\* parentheses, and x, a name that allowed_names does not define.
Digits == {"0", "1", "2"}
Tokens == Digits \cup {"+", "-", "*", "/", "(", ")", "x"}
Expressions == SeqsUpTo(Tokens, MaxTokens)

DigitValue(t) == IF t = "0" THEN 0 ELSE IF t = "1" THEN 1 ELSE 2

\* Python values: a number n/d (isFloat after a true division), or the
\* empty tuple ()
Num(n, d, f) == [type |-> "num", n |-> n, d |-> d, isFloat |-> f]
EmptyTuple == [type |-> "tuple", n |-> 0, d |-> 1, isFloat |-> FALSE]

\* the outcome of evaluating an expression: a value, or the exception
Value(v) == [exc |-> "", val |-> v]
Raise(e) == [exc |-> e, val |-> EmptyTuple]

\* nesting depth of parentheses before position i
RECURSIVE Depth(_, _)
Depth(s, i) ==
    IF i <= 1 THEN 0
    ELSE Depth(s, i - 1)
         + (IF s[i - 1] = "(" THEN 1 ELSE IF s[i - 1] = ")" THEN -1 ELSE 0)

EndsOperand(t) == t \in Digits \cup {")", "x"}

\* positions of the binary + and - outside parentheses
AddPositions(s) ==
    {i \in 2..Len(s) : s[i] \in {"+", "-"} /\ Depth(s, i) = 0 /\ EndsOperand(s[i - 1])}
\* positions of * and / outside parentheses
MulPositions(s) ==
    {i \in 1..Len(s) : s[i] \in {"*", "/"} /\ Depth(s, i) = 0}
Last(S) == CHOOSE i \in S : \A j \in S : j <= i

\* the ( that the final ) of s closes, 0 when there is none
MatchingOpen(s) ==
    LET opens == {i \in 1..Len(s) - 1 :
                    s[i] = "(" /\ Depth(s, i) = Depth(s, Len(s)) - 1
                    /\ \A j \in i + 1..Len(s) - 1 : Depth(s, j) > Depth(s, i)}
    IN IF opens = {} THEN 0 ELSE Last(opens)

\* a binary operator applied to two Python values
BinaryOp(op, a, b) ==
    IF a.type = "num" /\ b.type = "num" THEN
        IF op = "+" THEN Value(Num(a.n * b.d + b.n * a.d, a.d * b.d, a.isFloat \/ b.isFloat))
        ELSE IF op = "-" THEN Value(Num(a.n * b.d - b.n * a.d, a.d * b.d, a.isFloat \/ b.isFloat))
        ELSE IF op = "*" THEN Value(Num(a.n * b.n, a.d * b.d, a.isFloat \/ b.isFloat))
        ELSE IF b.n = 0 THEN Raise("ZeroDivisionError")
        ELSE IF b.n > 0 THEN Value(Num(a.n * b.d, a.d * b.n, TRUE))
        ELSE Value(Num(-(a.n * b.d), -(a.d * b.n), TRUE))
    ELSE IF op = "+" /\ a.type = "tuple" /\ b.type = "tuple" THEN Value(EmptyTuple)
    ELSE IF op = "*" /\ a.type = "tuple" /\ b.type = "num" /\ ~b.isFloat THEN Value(EmptyTuple)
    ELSE IF op = "*" /\ a.type = "num" /\ b.type = "tuple" /\ ~a.isFloat THEN Value(EmptyTuple)
    ELSE Raise("TypeError")

\* the operands are evaluated left to right; a syntax error anywhere in the
\* source is raised by compilation, before anything is evaluated
Binary(op, l, r) ==
    IF l.exc = "SyntaxError" \/ r.exc = "SyntaxError" THEN Raise("SyntaxError")
    ELSE IF l.exc # "" THEN l
    ELSE IF r.exc # "" THEN r
    ELSE BinaryOp(op, l.val, r.val)

Unary(op, r) ==
    IF r.exc # "" THEN r
    ELSE IF r.val.type # "num" THEN Raise("TypeError")
    ELSE IF op = "-" THEN Value(Num(-r.val.n, r.val.d, r.val.isFloat))
    ELSE r

\* f(args): neither a number nor a tuple is callable
Call(f, args) ==
    IF f.exc = "SyntaxError" \/ args.exc = "SyntaxError" THEN Raise("SyntaxError")
    ELSE IF f.exc # "" THEN f
    ELSE IF args.exc # "" THEN args
    ELSE Raise("TypeError")

\* eval(expression, {"__builtins__": {}}, allowed_names) on the grammar
\*   expr := term (("+"|"-") term)*     term := factor (("*"|"/") factor)*
\*   factor := ("+"|"-") factor | primary
\*   primary := NUMBER | NAME | "(" [expr] ")" | primary "(" [expr] ")"
RECURSIVE EvalExpr(_), EvalTerm(_), EvalFactor(_), EvalPrimary(_)
EvalExpr(s) ==
    IF AddPositions(s) = {} THEN EvalTerm(s)
    ELSE LET i == Last(AddPositions(s))
         IN Binary(s[i], EvalExpr(SubSeq(s, 1, i - 1)), EvalTerm(SubSeq(s, i + 1, Len(s))))

EvalTerm(s) ==
    IF MulPositions(s) = {} THEN EvalFactor(s)
    ELSE LET i == Last(MulPositions(s))
         IN Binary(s[i], EvalTerm(SubSeq(s, 1, i - 1)), EvalFactor(SubSeq(s, i + 1, Len(s))))

EvalFactor(s) ==
    IF s = <<>> THEN Raise("SyntaxError")
    ELSE IF s[1] \in {"+", "-"} THEN Unary(s[1], EvalFactor(Tail(s)))
    ELSE EvalPrimary(s)

EvalPrimary(s) ==
    IF Len(s) = 1 THEN
        IF s[1] \in Digits THEN Value(Num(DigitValue(s[1]), 1, FALSE))
        ELSE IF s[1] = "x" THEN Raise("NameError")
        ELSE Raise("SyntaxError")
    ELSE IF s = <<>> \/ s[Len(s)] # ")" \/ MatchingOpen(s) = 0 THEN Raise("SyntaxError")
    ELSE LET k == MatchingOpen(s)
             inner == SubSeq(s, k + 1, Len(s) - 1)
             arg == IF inner = <<>> THEN Value(EmptyTuple) ELSE EvalExpr(inner)
         IN IF k = 1 THEN arg
            ELSE Call(EvalPrimary(SubSeq(s, 1, k - 1)), arg)

\* tools.py line 57
PyEval(expression) == EvalExpr(expression)

\* the messages of calculate
ZERO_DIVISION_MESSAGE == <<"ERR_ZERO_DIVISION">>
SyntaxMessage(expression) == <<"ERR_SYNTAX:">> \o expression
CalcErrorMessage(e) == <<"ERR_CALC:", e>>
SuccessMessage(expression, v) == expression \o <<"=", ToString(v)>>

\* what a call returns, or that it raised
Returned(str) == [raised |-> FALSE, value |-> str]
Propagated == [raised |-> TRUE, value |-> <<>>]

\* variant: the handler of ZeroDivisionError missing
CalculateNoZeroDivisionHandler(expr) ==
    LET r == PyEval(expr)
    IN IF r.exc = "" THEN Returned(SuccessMessage(expr, r.val))
       ELSE IF r.exc = "SyntaxError" THEN Returned(SyntaxMessage(expr))
       ELSE Returned(CalcErrorMessage(r.exc))

\* tools.py lines 55-64: the try block and its three handlers
Calculate(expr) ==
    LET r == PyEval(expr)
    IN IF r.exc = "" THEN Returned(SuccessMessage(expr, r.val))
       ELSE IF r.exc = "ZeroDivisionError" THEN Returned(ZERO_DIVISION_MESSAGE)
       ELSE IF r.exc = "SyntaxError" THEN Returned(SyntaxMessage(expr))
       ELSE Returned(CalcErrorMessage(r.exc))

\* ---------------------------------------------------- ask_translator_agent
\* The response of client.send_message, as the function reads it:
\*   hasResult            hasattr(actual_response, "result")
\*   hasStatus            hasattr(result, "status") and result.status
\*   hasStatusMessage     hasattr(status, "message") and status.message
\*   statusParts          status.message.parts
\*   hasParts, parts      hasattr(result, "parts"), result.parts
RespParts ==
    {NonTextPart, TextPart(<<>>), TextPart(<<"a">>), TextPart(<<"b">>)}
RespPartLists == SeqsUpTo(RespParts, MaxRespParts)
ErrorResponse ==
    [hasResult |-> FALSE, hasStatus |-> FALSE, hasStatusMessage |-> FALSE,
     statusParts |-> <<>>, hasParts |-> FALSE, parts |-> <<>>]
Responses ==
    {ErrorResponse}
    \cup [hasResult : {TRUE}, hasStatus : {TRUE}, hasStatusMessage : {TRUE},
          statusParts : RespPartLists, hasParts : {FALSE}, parts : {<<>>}]
    \cup [hasResult : {TRUE}, hasStatus : {TRUE}, hasStatusMessage : {TRUE},
          statusParts : RespPartLists, hasParts : {TRUE}, parts : RespPartLists]
    \cup [hasResult : {TRUE}, hasStatus : BOOLEAN, hasStatusMessage : {FALSE},
          statusParts : {<<>>}, hasParts : {FALSE}, parts : {<<>>}]
    \cup [hasResult : {TRUE}, hasStatus : BOOLEAN, hasStatusMessage : {FALSE},
          statusParts : {<<>>}, hasParts : {TRUE}, parts : RespPartLists]

ASK_FALLBACK == <<"NO_AGENT_RESPONSE">>

\* a2a_tools.py lines 69-71 and 74-76: the loop over parts returns the text
\* of the first part that has one; found is FALSE when the loop ends
RECURSIVE FirstText(_)
FirstText(ps) ==
    IF ps = <<>> THEN [found |-> FALSE, text |-> <<>>]
    ELSE IF Head(ps).hasText THEN [found |-> TRUE, text |-> Head(ps).text]
    ELSE FirstText(Tail(ps))

\* variant: the parts of the result are looked at before the status message
ExtractTextPartsFirst(resp) ==
    IF resp.hasResult /\ resp.hasParts /\ FirstText(resp.parts).found
    THEN FirstText(resp.parts).text
    ELSE IF resp.hasResult /\ resp.hasStatus /\ resp.hasStatusMessage
            /\ FirstText(resp.statusParts).found
    THEN FirstText(resp.statusParts).text
    ELSE ASK_FALLBACK

\* a2a_tools.py lines 59-78
ExtractText(resp) ==
    IF resp.hasResult
    THEN IF resp.hasStatus /\ resp.hasStatusMessage /\ resp.statusParts # <<>>
            /\ FirstText(resp.statusParts).found
         THEN FirstText(resp.statusParts).text
         ELSE IF resp.hasParts /\ FirstText(resp.parts).found
         THEN FirstText(resp.parts).text
         ELSE ASK_FALLBACK
    ELSE ASK_FALLBACK

\* --------------------------------------------------- state of the tools
VARIABLES
    \* calculate: position, argument, what the call returned
    calc_pc, expression, calc_result,
    \* ask_translator_agent: position, requests sent, response, return value
    ask_pc, ask_requests, ask_response, ask_result

toolVars ==
    <<calc_pc, expression, calc_result, ask_pc, ask_requests, ask_response,
      ask_result>>
vars ==
    <<pc, executor, req, queue, emitted, invokedAt, user_message,
      response_text, session, outcome, pos, sessions, agent, agentSeen,
      cancels, cancel_executor, cancel_ctx, calc_pc, expression, calc_result,
      ask_pc, ask_requests, ask_response, ask_result>>

ToolInit ==
    /\ calc_pc = "start"
    /\ expression = <<>>
    /\ calc_result = Returned(<<>>)
    /\ ask_pc = "start"
    /\ ask_requests = 0
    /\ ask_response = ErrorResponse
    /\ ask_result = Returned(<<>>)

\* tools.py lines 34-64: one call of calculate(expression)
CalculateCall ==
    /\ calc_pc = "start"
    /\ calc_result' = Calculate(expression)
    /\ calc_pc' = "done"
    /\ UNCHANGED <<expression, ask_pc, ask_requests, ask_response, ask_result>>
    /\ UNCHANGED execVars

\* a2a_tools.py lines 36-55: the message and the request are built and
\* client.send_message(request) is awaited
AskSend ==
    /\ ask_pc = "start"
    /\ ask_requests' = ask_requests + 1
    /\ ask_pc' = "awaiting"
    /\ UNCHANGED <<calc_pc, expression, calc_result, ask_response, ask_result>>
    /\ UNCHANGED execVars

\* a2a_tools.py lines 55-78: the response arrives and its text is returned
AskReceive(resp) ==
    /\ ask_pc = "awaiting"
    /\ ask_response' = resp
    /\ ask_result' = Returned(ExtractText(resp))
    /\ ask_pc' = "done"
    /\ UNCHANGED <<calc_pc, expression, calc_result, ask_requests>>
    /\ UNCHANGED execVars

\* a2a_tools.py line 55: send_message raises (timeout, connection refused):
\* nothing catches it
AskFail ==
    /\ ask_pc = "awaiting"
    /\ ask_result' = Propagated
    /\ ask_pc' = "done"
    /\ UNCHANGED <<calc_pc, expression, calc_result, ask_requests, ask_response>>
    /\ UNCHANGED execVars

\* ------------------------------------------------------- specifications
\* the two servers with NumCalls execute calls and MaxCancels cancel calls
\* interleaved
Init == ExecInit /\ ToolInit

Next ==
    \/ \E c \in Calls, ctx \in RequestContexts :
         LangChainExecuteBegin(c, ctx) /\ UNCHANGED toolVars
    \/ \E c \in Calls :
         LangChainInvoke(c, AgentOutcomesSmall) /\ UNCHANGED toolVars
    \/ \E c \in Calls : LangChainComplete(c) /\ UNCHANGED toolVars
    \/ \E ctx \in CancelContexts :
         Cancelable("langchain", ctx) /\ LangChainCancel(ctx) /\ UNCHANGED toolVars
    \/ \E c \in Calls, ctx \in RequestContexts :
         LocalLLMExecuteBegin(c, ctx) /\ UNCHANGED toolVars
    \/ \E c \in Calls :
         LocalLLMGetSession(c, RunnerOutcomesSmall) /\ UNCHANGED toolVars
    \/ \E c \in Calls :
         LocalLLMCreateSession(c, RunnerOutcomesSmall) /\ UNCHANGED toolVars
    \/ \E c \in Calls : LocalLLMStreamEvent(c) /\ UNCHANGED toolVars
    \/ \E c \in Calls : LocalLLMStreamEnd(c) /\ UNCHANGED toolVars
    \/ \E c \in Calls : LocalLLMComplete(c) /\ UNCHANGED toolVars
    \/ \E ctx \in CancelContexts :
         Cancelable("local_llm", ctx) /\ LocalLLMCancel(ctx) /\ UNCHANGED toolVars

Spec == Init /\ [][Next]_vars

\* one execute call of LocalLLMAgentExecutor followed through every stream
\* of at most MaxEvents events of at most MaxParts parts
NextAggregate ==
    \/ \E ctx \in RequestContexts :
         LocalLLMExecuteBegin(1, ctx) /\ UNCHANGED toolVars
    \/ LocalLLMGetSession(1, RunnerOutcomes) /\ UNCHANGED toolVars
    \/ LocalLLMCreateSession(1, RunnerOutcomes) /\ UNCHANGED toolVars
    \/ LocalLLMStreamEvent(1) /\ UNCHANGED toolVars
    \/ LocalLLMStreamEnd(1) /\ UNCHANGED toolVars
    \/ LocalLLMComplete(1) /\ UNCHANGED toolVars

SpecAggregate == Init /\ [][NextAggregate]_vars

\* one execute call of LangChainA2AExecutor followed through every result
\* of at most MaxMsgs messages after the user's
NextInvoke ==
    \/ \E ctx \in RequestContexts :
         LangChainExecuteBegin(1, ctx) /\ UNCHANGED toolVars
    \/ LangChainInvoke(1, AgentOutcomes) /\ UNCHANGED toolVars
    \/ LangChainComplete(1) /\ UNCHANGED toolVars

SpecInvoke == Init /\ [][NextInvoke]_vars

\* calculate on every expression of at most MaxTokens tokens
InitCalc ==
    /\ ExecInit
    /\ calc_pc = "start"
    /\ expression \in Expressions
    /\ calc_result = Returned(<<>>)
    /\ ask_pc = "start"
    /\ ask_requests = 0
    /\ ask_response = ErrorResponse
    /\ ask_result = Returned(<<>>)

SpecCalc == InitCalc /\ [][CalculateCall]_vars

\* ask_translator_agent on every response
NextAsk ==
    \/ AskSend
    \/ \E resp \in Responses : AskReceive(resp)
    \/ AskFail

SpecAsk == Init /\ [][NextAsk]_vars

\* ================================================================ claims
Ended(c) == pc[c] \in {"returned", "raised", "done"}
\* the underlying agent of call c was invoked and returned normally
AgentReturned(c) == invokedAt[c] # -1 /\ ~outcome[c].raises
IsCompletedFor(ev, ctx) ==
    /\ ev.kind = "Task"
    /\ ev.state = "completed"
    /\ ev.task_id = ctx.task_id
    /\ ev.context_id = ctx.context_id

\* C1: an execute call (either executor) whose underlying agent was run and
\* returned normally has enqueued exactly two events when it ends: the
\* working TaskStatusUpdateEvent (final=False) and then a completed Task,
\* both with the request's task_id and context_id; and the working event
\* was already enqueued when the agent was invoked.
C1_WorkingThenCompleted ==
    \A c \in Calls :
        /\ invokedAt[c] # -1 =>
             /\ invokedAt[c] = 1
             /\ emitted[c][1] = WorkingEvent(req[c])
             /\ req[c].message.present /\ req[c].message.parts # <<>>
        /\ (Ended(c) /\ AgentReturned(c)) =>
             /\ pc[c] = "done"
             /\ Len(emitted[c]) = 2
             /\ emitted[c][1] = WorkingEvent(req[c])
             /\ ~emitted[c][1].final
             /\ IsCompletedFor(emitted[c][2], req[c])
        /\ Len(emitted[c]) <= 2

\* C1 witness: one call of each executor has ended after its agent returned
C1_Witness ==
    \E c, d \in Calls :
        /\ pc[c] = "done" /\ executor[c] = "langchain" /\ AgentReturned(c)
        /\ pc[d] = "done" /\ executor[d] = "local_llm" /\ AgentReturned(d)

\* C2 (as claimed): whenever the underlying agent raised after the working
\* event, the call ends normally with a completed Task whose text holds the
\* exception's string; it never ends by propagating the exception with only
\* the working event enqueued.
C2_ExceptionBecomesCompleted ==
    \A c \in Calls :
        (Ended(c) /\ invokedAt[c] # -1 /\ outcome[c].raises) =>
            /\ pc[c] = "done"
            /\ Len(emitted[c]) = 2
            /\ IsCompletedFor(emitted[c][2], req[c])
            /\ emitted[c][2].text = ErrorText(outcome[c].exc)

\* the terminal events of a queue
TerminalPositions(q) == {i \in 1..Len(q) : IsTerminal(q[i])}

\* C3 (as claimed): every task's queue holds at most one terminal event
\* (completed or canceled Task) and nothing after it.
C3_OneTerminalEventLast ==
    \A k \in Executors \X TaskIds :
        /\ Cardinality(TerminalPositions(queue[k])) <= 1
        /\ \A i \in TerminalPositions(queue[k]) : i = Len(queue[k])

\* the non-empty texts of the parts of the events that have content, as
\* one list of texts: event by event, part by part
TextsOf(events) ==
    LET at == UNION {{<<i, j>> : j \in {k \in 1..Len(events[i].parts) :
                                           /\ events[i].parts[k].hasText
                                           /\ events[i].parts[k].text # <<>>}} :
                     i \in {n \in 1..Len(events) : events[n].hasContent}}
        Before(p, q) == p[1] < q[1] \/ (p[1] = q[1] /\ p[2] < q[2])
        Rank(p) == Cardinality({q \in at : Before(q, p)}) + 1
    IN [n \in 1..Cardinality(at) |->
          LET p == CHOOSE q \in at : Rank(q) = n
          IN events[p[1]].parts[p[2]].text]

RECURSIVE Concat(_)
Concat(texts) == IF texts = <<>> THEN <<>> ELSE Head(texts) \o Concat(Tail(texts))

\* C4: a LocalLLMAgentExecutor.execute call whose runner ended normally has
\* enqueued exactly one completed Task; its text is the concatenation of
\* the non-empty text parts of the events with content, in the order
\* yielded and in part order, or the fallback when that is empty; while the
\* stream is consumed response_text is that concatenation over the events
\* consumed so far.
C4_TextIsConcatenation ==
    \A c \in Calls :
        /\ (pc[c] = "done" /\ executor[c] = "local_llm") =>
             /\ Cardinality({i \in 1..Len(emitted[c]) : IsTerminal(emitted[c][i])}) = 1
             /\ emitted[c][Len(emitted[c])] =
                  CompletedTask(req[c],
                     IF Concat(TextsOf(outcome[c].events)) = <<>>
                     THEN FallbackText
                     ELSE Concat(TextsOf(outcome[c].events)))
        /\ pc[c] \in {"stream", "complete"} =>
             response_text[c] = Concat(TextsOf(SubSeq(outcome[c].events, 1, pos[c])))

\* C4 witness: two events were streamed, the text crosses both and keeps
\* the order of the parts
C4_Witness ==
    /\ pc[1] = "done"
    /\ Len(outcome[1].events) = 2
    /\ outcome[1].events[1].parts = <<TextPart(<<"b">>), NonTextPart>>
    /\ outcome[1].events[2].parts = <<TextPart(<<"a">>), TextPart(<<"b">>)>>
    /\ emitted[1][2].text = <<"b", "a", "b">>

\* C5: a step that is a cancel call appends exactly one event to the queue
\* of the request's task, a canceled Task with the request's task_id and
\* context_id and no status message, and changes nothing else: no execute
\* call moves, the session store, the agent and every local are unchanged.
C5_CancelOnlyEnqueuesCanceled ==
    [][cancels' # cancels =>
         /\ cancels' = cancels + 1
         /\ queue' = [queue EXCEPT ![<<cancel_executor', cancel_ctx'.task_id>>] =
                        Append(@, [kind |-> "Task",
                                   task_id |-> cancel_ctx'.task_id,
                                   context_id |-> cancel_ctx'.context_id,
                                   state |-> "canceled", final |-> FALSE,
                                   hasMessage |-> FALSE, text |-> <<>>])]
         /\ UNCHANGED <<pc, executor, req, emitted, invokedAt, user_message,
                        response_text, session, outcome, pos, sessions, agent,
                        agentSeen>>]_vars

\* C5 witness: a cancel call was made for a task while an execute call on
\* that task was awaiting its agent, and that call is still there
C5_Witness ==
    \E c \in Calls :
        /\ cancels = 1
        /\ pc[c] \in {"invoke", "stream"}
        /\ executor[c] = cancel_executor
        /\ req[c].task_id = cancel_ctx.task_id
        /\ LET q == queue[<<executor[c], req[c].task_id>>]
           IN q = <<WorkingEvent(req[c]), CanceledTask(cancel_ctx)>>

\* C6 (as claimed): no state written while handling one request is read
\* while handling another that is handled at the same time: no call in
\* flight holds a session, or was given an agent instance, created by
\* another call in flight.
C6_NoSharedState ==
    \A c, d \in Active :
        c # d => session[c].creator # d /\ agentSeen[c].creator # d

\* the events an execute call enqueues, from its own request and the
\* outcome of its own agent only
OwnWorking(c) == WorkingEvent(req[c])
OwnCompleted(c) ==
    IF executor[c] = "langchain"
    THEN CompletedTask(req[c],
            IF outcome[c].raises THEN ErrorText(outcome[c].exc)
            ELSE InvokeAgentReturn(<<UserMsg(req[c].message.parts[1].text)>>
                                   \o outcome[c].messages))
    ELSE CompletedTask(req[c],
            IF Concat(TextsOf(outcome[c].events)) = <<>> THEN FallbackText
            ELSE Concat(TextsOf(outcome[c].events)))

\* C6 (amended): the session store and the agent instance are shared, but
\* the events an execute call enqueues are those its own request and its
\* own agent's outcome determine, in every interleaving with other calls:
\* first the working event, then (once the call is done) the completed Task
\* whose text comes from its own agent's outcome.
C6_EventsFromOwnRequest ==
    \A c \in Calls :
        /\ Len(emitted[c]) <= 2
        /\ Len(emitted[c]) >= 1 => emitted[c][1] = OwnWorking(c)
        /\ Len(emitted[c]) = 2 => emitted[c][2] = OwnCompleted(c)
        /\ pc[c] = "done" => Len(emitted[c]) = 2
        /\ pc[c] = "complete" =>
             CompletedTask(req[c],
                 IF executor[c] = "langchain" THEN response_text[c]
                 ELSE CompletedText(response_text[c])) = OwnCompleted(c)

\* C6 witness: two calls of LocalLLMAgentExecutor with the same context,
\* the second on the session the first created, have both consumed their
\* streams and are about to enqueue their completed Tasks
C6_Witness ==
    \E c, d \in Calls :
        /\ c # d
        /\ pc[c] = "complete" /\ pc[d] = "complete"
        /\ executor[c] = "local_llm" /\ executor[d] = "local_llm"
        /\ session[c].creator = c /\ session[d] = session[c]

\* out has the form '<expression> = <result>'
IsSuccessForm(out, expr) ==
    /\ Len(out) = Len(expr) + 2
    /\ SubSeq(out, 1, Len(expr)) = expr
    /\ out[Len(expr) + 1] = "="

\* C7: calculate returns a string for every expression and never raises;
\* a division by zero gives the fixed zero-division message, a malformed
\* expression the syntax message with the expression, in neither case a
\* string of the form '<expression> = <result>', which is returned only
\* when the evaluation raised nothing.
C7_CalculateRejects ==
    calc_pc = "done" =>
        LET e == PyEval(expression).exc
            out == calc_result.value
        IN /\ ~calc_result.raised
           /\ e = "ZeroDivisionError" => out = ZERO_DIVISION_MESSAGE
           /\ e = "SyntaxError" => out = SyntaxMessage(expression)
           /\ e \in {"ZeroDivisionError", "SyntaxError"} => ~IsSuccessForm(out, expression)
           /\ IsSuccessForm(out, expression) <=> e = ""
           \* a digit divided by 0, and an expression ending with an operator
           /\ (Len(expression) = 3 /\ expression[1] \in Digits
               /\ expression[2] = "/" /\ expression[3] = "0") =>
                out = ZERO_DIVISION_MESSAGE
           /\ (expression = <<>>
               \/ (expression # <<>>
                   /\ expression[Len(expression)] \in {"+", "-", "*", "/", "("})) =>
                out = SyntaxMessage(expression)

\* C7 witness: 1 / 0 was calculated
C7_Witness ==
    /\ calc_pc = "done"
    /\ expression = <<"1", "/", "0">>
    /\ calc_result = Returned(ZERO_DIVISION_MESSAGE)

\* the positions of the text-bearing parts
TextPositions(ps) == {i \in 1..Len(ps) : ps[i].hasText}
Least(S) == CHOOSE i \in S : \A j \in S : i <= j

\* C8: ask_translator_agent sends exactly one request; it returns the text
\* of the first text-bearing part of the result's status message when
\* there is one, otherwise the text of the first text-bearing part of the
\* result's own parts when there is one, otherwise the fallback string.
C8_FirstTextOfResponse ==
    /\ ask_requests <= 1
    /\ ask_pc # "start" => ask_requests = 1
    /\ (ask_pc = "done" /\ ~ask_result.raised) =>
         LET r == ask_response
             st == IF r.hasResult /\ r.hasStatus /\ r.hasStatusMessage
                   THEN TextPositions(r.statusParts) ELSE {}
             ms == IF r.hasResult /\ r.hasParts
                   THEN TextPositions(r.parts) ELSE {}
         IN ask_result.value =
              IF st # {} THEN r.statusParts[Least(st)].text
              ELSE IF ms # {} THEN r.parts[Least(ms)].text
              ELSE ASK_FALLBACK

\* C8 witness: the status message has a text part after a part without
\* text, the result has a text part of its own, and the status text won
C8_Witness ==
    /\ ask_pc = "done"
    /\ ask_response.statusParts = <<NonTextPart, TextPart(<<"a">>)>>
    /\ ask_response.hasParts
    /\ ask_response.parts = <<TextPart(<<"b">>)>>
    /\ ask_result = Returned(<<"a">>)

\* C9 (as claimed): invoke_agent returns the content of the last AI message
\* with content, never the user's message or a tool message, and the
\* fallback exactly when no AI message has content.
C9_LastAIMessage ==
    \A c \in Calls :
        (pc[c] = "complete" /\ executor[c] = "langchain" /\ ~outcome[c].raises) =>
            LET msgs == <<UserMsg(user_message[c])>> \o outcome[c].messages
                ai == {i \in 1..Len(msgs) :
                         msgs[i].type = "ai" /\ msgs[i].content # <<>>}
            IN response_text[c] =
                 IF ai = {} THEN FallbackText ELSE msgs[Last(ai)].content

\* C10 (as claimed): the session store never holds two sessions for the
\* same (application, user) key.
C10_OneSessionPerKey ==
    \A s1, s2 \in sessions :
        (s1.app_name = s2.app_name /\ s1.user_id = s2.user_id) => s1 = s2

\* the request has no message, or a message without parts
NoInput(ctx) == ~ctx.message.present \/ ctx.message.parts = <<>>

\* C11: an execute call (either executor) on a request that has no message
\* or a message without parts returns at once: the step that begins it
\* leaves every event queue, the session store and the agent instance
\* unchanged, and the call has enqueued no event, has not invoked the
\* underlying agent and holds no session, then and ever after.
C11_NoInputNoEffect ==
    [][\A c \in Calls :
          (pc'[c] # "idle" /\ NoInput(req'[c])) =>
              /\ pc'[c] = "returned"
              /\ emitted'[c] = <<>>
              /\ invokedAt'[c] = -1
              /\ session'[c] = NoSession
              /\ agentSeen'[c] = NoAgent
              /\ outcome'[c] = NoOutcome
              /\ pc[c] = "idle" => UNCHANGED <<queue, sessions, agent>>]_vars

\* C11 witness: a call on a message without parts has returned while the
\* queue of another task holds events and the session store holds a session
\* for this request's user key, which the call neither read nor replaced
C11_Witness ==
    \E c \in Calls :
        /\ pc[c] = "returned"
        /\ executor[c] = "local_llm"
        /\ req[c].message.present /\ req[c].message.parts = <<>>
        /\ queue[<<"local_llm", req[c].task_id>>] = <<>>
        /\ \E k \in Executors \X TaskIds : queue[k] # <<>>
        /\ \E s \in sessions : s.user_id = UserId(req[c]) /\ s.creator # c
====
